---- MODULE Spec2Model ----
(***************************************************************************)
(* A model of pyrainbird's RainbirdController (src/pyrainbird/__init__.py):*)
(* the command dispatcher (command, _process_command), the time-windowed   *)
(* cache of the zone state and of the rain sensor flag, and the facade     *)
(* operations built on them.                                               *)
(*                                                                         *)
(* One action is one facade call, taken as a whole.  The transport and the *)
(* codec are collaborators outside the modelled file: what the transport   *)
(* answers to a request is an input of the call, drawn from Responses(cmd).*)
(* The wall clock (time.time()) is the variable now; it never runs         *)
(* backwards, advances between calls (Tick) and while a request is on the  *)
(* wire (the latency d of a dispatch).                                     *)
(***************************************************************************)
EXTENDS Integers, Sequences, FiniteSets, TLC

(***************************************************************************)
(* Bounds of the model.                                                    *)
(***************************************************************************)
\* The clock runs from 0 to MaxTime.
MaxTime == 4
\* A dispatch keeps the caller for 0..MaxLatency clock units.
MaxLatency == 1
\* The update_delay the controller under test is constructed with.
UpdateDelay == 2

(***************************************************************************)
(* Python values.  A value carries its class in tag, so that isinstance    *)
(* and == between values of different classes can be decided.              *)
(***************************************************************************)
None == [tag |-> "None"]

PyBool(b) == [tag |-> "bool", v |-> b]

PyInt(n) == [tag |-> "int", v |-> n]

\* A decoded response (a dict): its "type" key and its other keys.
PyDict(type, fields) == [tag |-> "dict", type |-> type, fields |-> fields]

isinstance(value, class) == value.tag = class

\* An optional timestamp: <<>> is None, <<t>> is the time t.
NoTime == <<>>

At(t) == <<t>>

(***************************************************************************)
(* Integers of the wire format.  A 32-bit field is kept as the pair        *)
(* <<hi, lo>> of its 16-bit halves, standing for hi * 65536 + lo, since    *)
(* the model checker's integers stop short of 2^32.                        *)
(***************************************************************************)
Word16(hi, lo) == <<hi, lo>>

\* The hex digits (0..15 each, most significant first) of n, at least
\* `width` of them: "%0<width>X" % n.
RECURSIVE HexDigits(_, _)
HexDigits(n, width) ==
    IF n < 16 /\ width <= 1
    THEN <<n>>
    ELSE Append(HexDigits(n \div 16, width - 1), n % 16)

\* A faulty variant of Hex08X: the low half of the value first.
Hex08X_low_first(a) == HexDigits(a[2], 4) \o HexDigits(a[1], 4)

\* "%08X" % a, for a = hi * 65536 + lo with both halves below 65536.
Hex08X(a) == HexDigits(a[1], 4) \o HexDigits(a[2], 4)

(***************************************************************************)
(* pyrainbird.data.States (the Bitmask State): a hex string expanded to    *)
(* four flags per digit, most significant bit first, in digit order.       *)
(***************************************************************************)
DigitBits(d) ==
    << (d \div 8) % 2 = 1, (d \div 4) % 2 = 1, (d \div 2) % 2 = 1, d % 2 = 1 >>

RECURSIVE ExpandHex(_)
ExpandHex(digits) ==
    IF digits = <<>>
    THEN <<>>
    ELSE DigitBits(Head(digits)) \o ExpandHex(Tail(digits))

\* States(mask), mask given as its hex digits.
States(digits) == [tag |-> "States", states |-> ExpandHex(digits)]

\* States.active(zone): the flag at the zero-based position zone.
active(zones, zone) == zones.states[zone + 1]

\* reduce(lambda x, y: x or y, zones.states)
AnyActive(zones) == \E i \in 1..Len(zones.states) : zones.states[i]

(***************************************************************************)
(* The protocol table (RAIBIRD_COMMANDS) and the codec, both outside the   *)
(* modelled file: the response code a command expects, and the type tag    *)
(* the table gives a response code.                                        *)
(***************************************************************************)
\* RAIBIRD_COMMANDS["ControllerCommands"][cmd + "Request"]["response"]
ExpectedCode(cmd) ==
    CASE cmd = "ModelAndVersion" -> "82"
      [] cmd = "AvailableStations" -> "83"
      [] cmd = "CommandSupport" -> "84"
      [] cmd = "SerialNumber" -> "85"
      [] cmd = "CurrentTime" -> "90"
      [] cmd = "CurrentDate" -> "92"
      [] cmd = "WaterBudget" -> "B0"
      [] cmd = "RainDelayGet" -> "B6"
      [] cmd = "CurrentRainSensorState" -> "BE"
      [] cmd = "CurrentStationsActive" -> "BF"
      [] cmd = "CurrentIrrigationState" -> "C8"
      [] cmd = "CurrentSchedule" -> "A0"
      [] OTHER -> "01"

\* RAIBIRD_COMMANDS["ControllerResponses"][code]["type"]
ResponseType(code) ==
    CASE code = "00" -> "NotAcknowledgeResponse"
      [] code = "01" -> "AcknowledgeResponse"
      [] code = "82" -> "ModelAndVersionResponse"
      [] code = "83" -> "AvailableStationsResponse"
      [] code = "84" -> "CommandSupportResponse"
      [] code = "85" -> "SerialNumberResponse"
      [] code = "90" -> "CurrentTimeResponse"
      [] code = "92" -> "CurrentDateResponse"
      [] code = "B0" -> "WaterBudgetResponse"
      [] code = "B6" -> "RainDelaySettingResponse"
      [] code = "BE" -> "CurrentRainSensorStateResponse"
      [] code = "BF" -> "CurrentStationsActiveResponse"
      [] code = "C8" -> "CurrentIrrigationStateResponse"
      [] code = "A0" -> "CurrentScheduleResponse"

\* The transport's empty result.
NoData == [tag |-> "None"]

\* A non-empty answer of the transport: its leading status code
\* (decrypted_data[:2]) and what the codec makes of the rest, the type tag
\* and the fields of the decoded mapping.
Data(code, type, fields) ==
    [tag |-> "data", code |-> code, type |-> type, fields |-> fields]

\* rainbird.decode(decrypted_data)
decode(data) == PyDict(data.type, data.fields)

(***************************************************************************)
(* What the device may answer.  The type tag the codec reports is an input *)
(* of its own: the modelled file compares it separately from the status    *)
(* code, so both comparisons are exercised.                                *)
(***************************************************************************)
\* The 32-bit activeStations / setStations values tried: none, zone 0
\* (0x80000000), zone 7 (0x01000000), and low bits only (0x0000FFFF).
StationsInputs ==
    { Word16(0, 0), Word16(32768, 0), Word16(256, 0), Word16(0, 65535) }

\* The fields a well-formed response to cmd may carry.
Payloads(cmd) ==
    CASE cmd = "CurrentStationsActive" ->
            { [pageNumber |-> 0, activeStations |-> a] : a \in StationsInputs }
      [] cmd = "CurrentRainSensorState" ->
            { [sensorState |-> b] : b \in {0, 1} }
      [] cmd = "ModelAndVersion" ->
            { [modelID |-> 3, protocolRevisionMajor |-> 2,
               protocolRevisionMinor |-> 9] }
      [] cmd = "AvailableStations" ->
            { [pageNumber |-> 0, setStations |-> Word16(65280, 0)] }
      [] cmd = "CommandSupport" ->
            { [commandEcho |-> 63, support |-> 1] }
      [] cmd = "SerialNumber" -> { [serialNumber |-> 7] }
      [] cmd = "CurrentTime" -> { [hour |-> 12, minute |-> 30, second |-> 5] }
      [] cmd = "CurrentDate" -> { [day |-> 1, month |-> 2, year |-> 2020] }
      [] cmd = "WaterBudget" ->
            { [programCode |-> 0, highByte |-> 0, lowByte |-> 100] }
      [] cmd = "RainDelayGet" -> { [delaySetting |-> 2] }
      [] cmd = "CurrentIrrigationState" -> { [irrigationState |-> 1] }
      [] cmd = "CurrentSchedule" -> { [data |-> 0] }
      [] OTHER -> { [commandEcho |-> 0] }

\* The fields of a NotAcknowledge response.
NakFields == [commandEcho |-> 0, NAKCode |-> 2]

\* Everything the transport may hand back for a request of cmd: nothing;
\* the expected code and type; the expected code with another type tag;
\* another status code.
Responses(cmd) ==
    {NoData}
    \cup { Data(ExpectedCode(cmd), ResponseType(ExpectedCode(cmd)), f) :
             f \in Payloads(cmd) }
    \cup { Data(ExpectedCode(cmd), ResponseType("00"), NakFields) }
    \cup { Data("00", ResponseType("00"), NakFields) }

\* The answers that give a typed result: not empty, the status code cmd
\* expects and the type tag the table gives that code.
Typed(cmd, data) ==
    /\ data # NoData
    /\ data.code = ExpectedCode(cmd)
    /\ data.type = ResponseType(ExpectedCode(cmd))

(***************************************************************************)
(* The command dispatcher.  The outcome of a call is a value returned or   *)
(* an exception raised; sent lists the requests handed to the transport    *)
(* (rainbird_client.request), in order.                                    *)
(***************************************************************************)
Return(value) == [kind |-> "return", value |-> value]

Raise(exc) == [kind |-> "raise", exc |-> exc]

\* The Exception of command(): its message is built from the expected
\* code, the code received and the decoded response.
WrongResponse(expected, actual, decoded) ==
    [tag |-> "Exception", expected |-> expected, actual |-> actual,
     decoded |-> decoded]

\* pyrainbird.data._DEFAULT_PAGE
DefaultPage == 0

\* One request as the transport sees it.
Request(cmd, args) == [cmd |-> cmd, args |-> args]

\* Faulty variants of command, to show the properties can tell: one that
\* raises on an empty answer, one that does not compare the status code.
command_raise_empty(cmd, args, data) ==
    [sent |-> << Request(cmd, args) >>,
     outcome |->
        IF data = NoData
        THEN Raise([tag |-> "Exception"])
        ELSE IF data.code # ExpectedCode(cmd)
             THEN Raise(WrongResponse(ExpectedCode(cmd), data.code,
                                      decode(data)))
             ELSE Return(decode(data))]

command_unchecked(cmd, args, data) ==
    [sent |-> << Request(cmd, args) >>,
     outcome |-> IF data = NoData THEN Return(None) ELSE Return(decode(data))]

\* RainbirdController.command, given what the transport answers (data).
command(cmd, args, data) ==
    [sent |-> << Request(cmd, args) >>,
     outcome |->
        IF data = NoData
        THEN Return(None)
        ELSE IF data.code # ExpectedCode(cmd)
             THEN Raise(WrongResponse(ExpectedCode(cmd), data.code,
                                      decode(data)))
             ELSE Return(decode(data))]

(***************************************************************************)
(* The mapping functions (the lambdas) the facade hands to                 *)
(* _process_command, by the operation that hands them.  The record         *)
(* classes of pyrainbird.data are records of their constructor arguments.  *)
(***************************************************************************)
funct(op, resp) ==
    LET f == resp.fields IN
    CASE op = "get_model_and_version" ->
            [tag |-> "ModelAndVersion", model |-> f.modelID,
             major |-> f.protocolRevisionMajor,
             minor |-> f.protocolRevisionMinor]
      [] op = "get_available_stations" ->
            [tag |-> "AvailableStations",
             stations |-> States(Hex08X(f.setStations)),
             page |-> f.pageNumber]
      [] op = "get_command_support" ->
            [tag |-> "CommandSupport", support |-> f.support,
             echo |-> f.commandEcho]
      [] op = "get_serial_number" -> PyInt(f.serialNumber)
      [] op = "get_current_time" ->
            [tag |-> "time", hour |-> f.hour, minute |-> f.minute,
             second |-> f.second]
      [] op = "get_current_date" ->
            [tag |-> "date", year |-> f.year, month |-> f.month,
             day |-> f.day]
      [] op = "water_budget" ->
            [tag |-> "WaterBudget", program |-> f.programCode,
             high_byte |-> f.highByte, low_byte |-> f.lowByte]
      [] op = "get_rain_sensor_state" -> PyBool(f.sensorState # 0)
      [] op = "_update_irrigation_state" ->
            States(SubSeq(Hex08X(f.activeStations), 1, 2))
      [] op = "get_rain_delay" -> PyInt(f.delaySetting)
      [] op = "get_current_irrigation" -> PyInt(f.irrigationState)
      [] op = "schedule" -> resp
      [] OTHER -> PyBool(TRUE)

\* A faulty variant of _process_command: None, not the raw mapping, when
\* the type tag differs.
_process_command_none_on_mismatch(op, cmd, args, data) ==
    LET c == command(cmd, args, data)
        response == c.outcome
    IN  [sent |-> c.sent,
         outcome |->
            IF response.kind = "raise"
            THEN response
            ELSE IF /\ response.value # None
                    /\ response.value.type = ResponseType(ExpectedCode(cmd))
                 THEN Return(funct(op, response.value))
                 ELSE Return(None)]

\* RainbirdController._process_command with the mapping function of op.
_process_command(op, cmd, args, data) ==
    LET c == command(cmd, args, data)
        response == c.outcome
    IN  [sent |-> c.sent,
         outcome |->
            IF response.kind = "raise"
            THEN response
            ELSE IF /\ response.value # None
                    /\ response.value.type = ResponseType(ExpectedCode(cmd))
                 THEN Return(funct(op, response.value))
                 ELSE Return(response.value)]

(***************************************************************************)
(* The controller.  self is the record of the instance's fields; every     *)
(* operation gives the fields after it, its outcome and what it sent.      *)
(***************************************************************************)
\* A faulty variant of _check_delay: stale already at timestamp + delay.
_check_delay_ge(update_time, update_delay, now_) ==
    update_time = NoTime \/ now_ >= update_time[1] + update_delay

\* _check_delay, with now_ the value time.time() returns in it.
_check_delay(update_time, update_delay, now_) ==
    update_time = NoTime \/ now_ > update_time[1] + update_delay

\* A faulty variant of _update_irrigation_state: the cached state is reset
\* when no Bitmask State was obtained.
_update_irrigation_state_resets(self, page, data) ==
    LET p == _process_command("_update_irrigation_state",
                              "CurrentStationsActive", <<page>>, data)
        result == p.outcome
    IN  [self |-> IF result.kind = "return" /\ isinstance(result.value, "States")
                  THEN [self EXCEPT !.zones = result.value]
                  ELSE [self EXCEPT !.zones = States(<<0, 0>>)],
         outcome |-> result,
         sent |-> p.sent]

\* _update_irrigation_state(page)
_update_irrigation_state(self, page, data) ==
    LET p == _process_command("_update_irrigation_state",
                              "CurrentStationsActive", <<page>>, data)
        result == p.outcome
    IN  [self |-> IF result.kind = "return" /\ isinstance(result.value, "States")
                  THEN [self EXCEPT !.zones = result.value]
                  ELSE self,
         outcome |-> result,
         sent |-> p.sent]

\* Faulty variants of get_zone_state: one that never stamps the timestamp,
\* one that stamps it whatever the refresh gave, one that turns an
\* exception of the refresh into a failed refresh.
get_zone_state_no_stamp(self, zone, data, t0, t1) ==
    IF _check_delay(self.zone_update_time, self.update_delay, t0)
    THEN LET u == _update_irrigation_state(self, DefaultPage, data) IN
         IF u.outcome.kind = "raise"
         THEN u
         ELSE IF ~isinstance(u.outcome.value, "States")
              THEN [self |-> [u.self EXCEPT !.zones = States(<<0, 0>>)],
                    outcome |-> Return(None), sent |-> u.sent]
              ELSE [self |-> u.self,
                    outcome |-> Return(PyBool(active(u.self.zones, zone))),
                    sent |-> u.sent]
    ELSE [self |-> self, outcome |-> Return(PyBool(active(self.zones, zone))),
          sent |-> <<>>]

get_zone_state_stamp_always(self, zone, data, t0, t1) ==
    IF _check_delay(self.zone_update_time, self.update_delay, t0)
    THEN LET u == _update_irrigation_state(self, DefaultPage, data) IN
         IF u.outcome.kind = "raise"
         THEN u
         ELSE IF ~isinstance(u.outcome.value, "States")
              THEN [self |-> [u.self EXCEPT !.zones = States(<<0, 0>>),
                                            !.zone_update_time = At(t1)],
                    outcome |-> Return(None), sent |-> u.sent]
              ELSE [self |-> [u.self EXCEPT !.zone_update_time = At(t1)],
                    outcome |-> Return(PyBool(active(u.self.zones, zone))),
                    sent |-> u.sent]
    ELSE [self |-> self, outcome |-> Return(PyBool(active(self.zones, zone))),
          sent |-> <<>>]

get_zone_state_swallow(self, zone, data, t0, t1) ==
    IF _check_delay(self.zone_update_time, self.update_delay, t0)
    THEN LET u == _update_irrigation_state(self, DefaultPage, data) IN
         IF u.outcome.kind = "raise" \/ ~isinstance(u.outcome.value, "States")
         THEN [self |-> [u.self EXCEPT !.zones = States(<<0, 0>>)],
               outcome |-> Return(None), sent |-> u.sent]
         ELSE [self |-> [u.self EXCEPT !.zone_update_time = At(t1)],
               outcome |-> Return(PyBool(active(u.self.zones, zone))),
               sent |-> u.sent]
    ELSE [self |-> self, outcome |-> Return(PyBool(active(self.zones, zone))),
          sent |-> <<>>]

\* get_zone_state(zone).  t0 is the clock read by _check_delay, t1 the
\* clock read once the response is in; data is the transport's answer, if
\* it is asked.
get_zone_state(self, zone, data, t0, t1) ==
    IF _check_delay(self.zone_update_time, self.update_delay, t0)
    THEN LET u == _update_irrigation_state(self, DefaultPage, data) IN
         IF u.outcome.kind = "raise"
         THEN u
         ELSE IF ~isinstance(u.outcome.value, "States")
              THEN [self |-> [u.self EXCEPT !.zones = States(<<0, 0>>)],
                    outcome |-> Return(None), sent |-> u.sent]
              ELSE [self |-> [u.self EXCEPT !.zone_update_time = At(t1)],
                    outcome |-> Return(PyBool(active(u.self.zones, zone))),
                    sent |-> u.sent]
    ELSE [self |-> self, outcome |-> Return(PyBool(active(self.zones, zone))),
          sent |-> <<>>]

\* A faulty variant of get_rain_sensor_state: the timestamp is stamped
\* whatever the refresh gave.
get_rain_sensor_state_stamp_always(self, data, t0, t1) ==
    IF _check_delay(self.sensor_update_time, self.update_delay, t0)
    THEN LET p == _process_command("get_rain_sensor_state",
                                   "CurrentRainSensorState", <<>>, data)
             response == p.outcome
         IN  IF response.kind = "raise"
             THEN [self |-> self, outcome |-> response, sent |-> p.sent]
             ELSE IF isinstance(response.value, "bool")
                  THEN [self |-> [self EXCEPT
                                    !.rain_sensor = response.value,
                                    !.sensor_update_time = At(t1)],
                        outcome |-> Return(response.value), sent |-> p.sent]
                  ELSE [self |-> [self EXCEPT
                                    !.rain_sensor = None,
                                    !.sensor_update_time = At(t1)],
                        outcome |-> Return(None), sent |-> p.sent]
    ELSE [self |-> self, outcome |-> Return(self.rain_sensor), sent |-> <<>>]

\* A faulty variant of get_rain_sensor_state: the flag is kept when the
\* refresh fails.
get_rain_sensor_state_no_reset(self, data, t0, t1) ==
    IF _check_delay(self.sensor_update_time, self.update_delay, t0)
    THEN LET p == _process_command("get_rain_sensor_state",
                                   "CurrentRainSensorState", <<>>, data)
             response == p.outcome
         IN  IF response.kind = "raise"
             THEN [self |-> self, outcome |-> response, sent |-> p.sent]
             ELSE IF isinstance(response.value, "bool")
                  THEN [self |-> [self EXCEPT
                                    !.rain_sensor = response.value,
                                    !.sensor_update_time = At(t1)],
                        outcome |-> Return(response.value), sent |-> p.sent]
                  ELSE [self |-> self, outcome |-> Return(self.rain_sensor),
                        sent |-> p.sent]
    ELSE [self |-> self, outcome |-> Return(self.rain_sensor), sent |-> <<>>]

\* get_rain_sensor_state(), with t0, t1 and data as above.
get_rain_sensor_state(self, data, t0, t1) ==
    IF _check_delay(self.sensor_update_time, self.update_delay, t0)
    THEN LET p == _process_command("get_rain_sensor_state",
                                   "CurrentRainSensorState", <<>>, data)
             response == p.outcome
         IN  IF response.kind = "raise"
             THEN [self |-> self, outcome |-> response, sent |-> p.sent]
             ELSE IF isinstance(response.value, "bool")
                  THEN [self |-> [self EXCEPT
                                    !.rain_sensor = response.value,
                                    !.sensor_update_time = At(t1)],
                        outcome |-> Return(response.value), sent |-> p.sent]
                  ELSE [self |-> [self EXCEPT !.rain_sensor = None],
                        outcome |-> Return(None), sent |-> p.sent]
    ELSE [self |-> self, outcome |-> Return(self.rain_sensor), sent |-> <<>>]

\* A faulty variant of irrigate_zone: the refresh is skipped when the
\* action was not acknowledged.
irrigate_zone_skips_refresh(self, zone, minutes, data1, data2) ==
    LET p == _process_command("irrigate_zone", "ManuallyRunStation",
                              <<zone, minutes>>, data1)
        response == p.outcome
    IN  IF response.kind = "raise"
        THEN [self |-> self, outcome |-> response, sent |-> p.sent]
        ELSE IF response.value # PyBool(TRUE)
        THEN [self |-> self, outcome |-> Return(PyBool(FALSE)),
              sent |-> p.sent]
        ELSE LET u == _update_irrigation_state(self, DefaultPage, data2) IN
             IF u.outcome.kind = "raise"
             THEN [self |-> u.self, outcome |-> u.outcome,
                   sent |-> p.sent \o u.sent]
             ELSE [self |-> u.self,
                   outcome |-> Return(PyBool(/\ response.value = PyBool(TRUE)
                                             /\ active(u.self.zones, zone))),
                   sent |-> p.sent \o u.sent]

\* irrigate_zone(zone, minutes); data1 answers the ManuallyRunStation
\* request and data2 the CurrentStationsActive request that follows it.
irrigate_zone(self, zone, minutes, data1, data2) ==
    LET p == _process_command("irrigate_zone", "ManuallyRunStation",
                              <<zone, minutes>>, data1)
        response == p.outcome
    IN  IF response.kind = "raise"
        THEN [self |-> self, outcome |-> response, sent |-> p.sent]
        ELSE LET u == _update_irrigation_state(self, DefaultPage, data2) IN
             IF u.outcome.kind = "raise"
             THEN [self |-> u.self, outcome |-> u.outcome,
                   sent |-> p.sent \o u.sent]
             ELSE [self |-> u.self,
                   outcome |-> Return(PyBool(/\ response.value = PyBool(TRUE)
                                             /\ active(u.self.zones, zone))),
                   sent |-> p.sent \o u.sent]

\* stop_irrigation(), likewise with the StopIrrigation request.
stop_irrigation(self, data1, data2) ==
    LET p == _process_command("stop_irrigation", "StopIrrigation", <<>>,
                              data1)
        response == p.outcome
    IN  IF response.kind = "raise"
        THEN [self |-> self, outcome |-> response, sent |-> p.sent]
        ELSE LET u == _update_irrigation_state(self, DefaultPage, data2) IN
             IF u.outcome.kind = "raise"
             THEN [self |-> u.self, outcome |-> u.outcome,
                   sent |-> p.sent \o u.sent]
             ELSE [self |-> u.self,
                   outcome |-> Return(PyBool(/\ response.value = PyBool(TRUE)
                                             /\ ~AnyActive(u.self.zones))),
                   sent |-> p.sent \o u.sent]

(***************************************************************************)
(* The facade operations that are one _process_command each.               *)
(***************************************************************************)
SimpleOps ==
    { "get_model_and_version", "get_available_stations",
      "get_command_support", "get_serial_number", "get_current_time",
      "get_current_date", "water_budget", "set_program", "test_zone",
      "get_rain_delay", "set_rain_delay", "advance_zone",
      "get_current_irrigation", "schedule" }

\* The command each of them names.
CommandOf(op) ==
    CASE op = "get_model_and_version" -> "ModelAndVersion"
      [] op = "get_available_stations" -> "AvailableStations"
      [] op = "get_command_support" -> "CommandSupport"
      [] op = "get_serial_number" -> "SerialNumber"
      [] op = "get_current_time" -> "CurrentTime"
      [] op = "get_current_date" -> "CurrentDate"
      [] op = "water_budget" -> "WaterBudget"
      [] op = "set_program" -> "ManuallyRunProgram"
      [] op = "test_zone" -> "TestStations"
      [] op = "get_rain_delay" -> "RainDelayGet"
      [] op = "set_rain_delay" -> "RainDelaySet"
      [] op = "advance_zone" -> "AdvanceStation"
      [] op = "get_current_irrigation" -> "CurrentIrrigationState"
      [] op = "schedule" -> "CurrentSchedule"

\* The arguments each is called with here.
ArgsOf(op) ==
    CASE op \in {"get_available_stations"} -> <<DefaultPage>>
      [] op \in {"get_command_support", "water_budget", "set_program",
                 "test_zone", "set_rain_delay", "advance_zone"} -> <<1>>
      [] op = "schedule" -> <<0, 0>>
      [] OTHER -> <<>>

\* A faulty variant of simple_call: the cached zone state is reset when
\* the dispatch gives no typed result.
simple_call_resets(self, op, args, data) ==
    LET p == _process_command(op, CommandOf(op), args, data) IN
    [self |-> IF p.outcome.kind = "return" /\ ~Typed(CommandOf(op), data)
              THEN [self EXCEPT !.zones = States(<<0, 0>>)]
              ELSE self,
     outcome |-> p.outcome, sent |-> p.sent]

\* Any of them: one request, and _process_command's outcome as its own.
simple_call(self, op, args, data) ==
    LET p == _process_command(op, CommandOf(op), args, data) IN
    [self |-> self, outcome |-> p.outcome, sent |-> p.sent]

(***************************************************************************)
(* The state machine.  A facade call is one step, from the caller being    *)
(* idle to the caller holding the call's outcome (last); with Resume the   *)
(* caller goes on.  Only the two cache reads read the clock, so only they  *)
(* are given a latency: time spent in any other call is a Tick after it.   *)
(***************************************************************************)
VARIABLES
    zones,              \* self.zones
    rain_sensor,        \* self.rain_sensor
    zone_update_time,   \* self.zone_update_time
    sensor_update_time, \* self.sensor_update_time
    now,                \* the clock, time.time()
    last,               \* the call that has just returned or raised: what
                        \* went in and what came out; Idle between calls
    hist,               \* when get_zone_state was last called (zone_call),
                        \* and last called with a refresh that succeeded
                        \* (zone_ok); whether self.zones was delivered by
                        \* a refresh, not set by __init__ or by a reset
                        \* (real); whether the call before, with no time
                        \* passed since, was an irrigate_zone or a
                        \* stop_irrigation that answered true on a refresh
                        \* that succeeded (forced)
    threads             \* the threads that share the instance, each at a
                        \* line of get_zone_state; NoThreads where one
                        \* caller makes whole calls

vars ==
    << zones, rain_sensor, zone_update_time, sensor_update_time, now, last,
       hist, threads >>

\* The instance's fields as one record.
Self ==
    [zones |-> zones, rain_sensor |-> rain_sensor,
     update_delay |-> UpdateDelay, zone_update_time |-> zone_update_time,
     sensor_update_time |-> sensor_update_time]

\* The zone arguments and the minutes tried.
ZoneInputs == {0, 7}

MinutesInputs == {10}

Idle == [op |-> "idle"]

NoThreads == [guarded |-> FALSE]

\* RainbirdController.__init__
Init ==
    /\ zones = States(<<0, 0>>)
    /\ rain_sensor = None
    /\ zone_update_time = NoTime
    /\ sensor_update_time = NoTime
    /\ now = 0
    /\ hist = [zone_call |-> NoTime, zone_ok |-> NoTime, real |-> FALSE,
               forced |-> FALSE]
    /\ threads = NoThreads
    /\ last = Idle

\* A call of op, begun now, has run to its end r: d clock units later,
\* having received recv from the transport.
Commit(op, args, r, recv, d) ==
    /\ zones' = r.self.zones
    /\ rain_sensor' = r.self.rain_sensor
    /\ zone_update_time' = r.self.zone_update_time
    /\ sensor_update_time' = r.self.sensor_update_time
    /\ now' = now + d
    /\ last' = [op |-> op, args |-> args, start |-> now, pre |-> Self,
                prev |-> hist, sent |-> r.sent, recv |-> recv,
                outcome |-> r.outcome]
    /\ UNCHANGED threads

\* Time passes between calls.
Tick ==
    /\ last = Idle
    /\ now < MaxTime
    /\ now' = now + 1
    /\ hist' = [hist EXCEPT !.forced = FALSE]
    /\ UNCHANGED << zones, rain_sensor, zone_update_time, sensor_update_time,
                    last, threads >>

\* The caller takes the outcome and goes on.
Resume ==
    /\ last # Idle
    /\ last' = Idle
    /\ UNCHANGED << zones, rain_sensor, zone_update_time, sensor_update_time,
                    now, hist, threads >>

\* hist after an irrigate_zone or a stop_irrigation that ended as r, data2
\* being the answer to its refresh, if that was sent.
AfterForced(r, data2) ==
    LET refreshed == /\ Len(r.sent) = 2
                     /\ Typed("CurrentStationsActive", data2)
    IN  [hist EXCEPT !.real = refreshed \/ hist.real,
                     !.forced = refreshed /\ r.outcome = Return(PyBool(TRUE))]

GetZoneState ==
    /\ last = Idle
    /\ \E zone \in ZoneInputs, data \in Responses("CurrentStationsActive"),
          d \in 0..MaxLatency :
        \E r \in { get_zone_state(Self, zone, data, now, now + d) } :
            /\ now + d <= MaxTime
            /\ r.sent # <<>> \/ (d = 0 /\ data = NoData)
            /\ Commit("get_zone_state", <<zone>>, r,
                      IF r.sent # <<>> THEN <<data>> ELSE <<>>, d)
            /\ hist' = [zone_call |-> At(now),
                        zone_ok |->
                            IF /\ r.sent # <<>>
                               /\ Typed("CurrentStationsActive", data)
                            THEN At(now) ELSE hist.zone_ok,
                        real |->
                            IF r.sent = <<>> \/ r.outcome.kind = "raise"
                            THEN hist.real
                            ELSE Typed("CurrentStationsActive", data),
                        forced |-> FALSE]

GetRainSensorState ==
    /\ last = Idle
    /\ \E data \in Responses("CurrentRainSensorState"), d \in 0..MaxLatency :
        \E r \in { get_rain_sensor_state(Self, data, now, now + d) } :
            /\ now + d <= MaxTime
            /\ r.sent # <<>> \/ (d = 0 /\ data = NoData)
            /\ Commit("get_rain_sensor_state", <<>>, r,
                      IF r.sent # <<>> THEN <<data>> ELSE <<>>, d)
            /\ hist' = [hist EXCEPT !.forced = FALSE]

IrrigateZone ==
    /\ last = Idle
    /\ \E zone \in ZoneInputs, minutes \in MinutesInputs,
          data1 \in Responses("ManuallyRunStation"),
          data2 \in Responses("CurrentStationsActive") :
        \E r \in { irrigate_zone(Self, zone, minutes, data1, data2) } :
            /\ Len(r.sent) = 2 \/ data2 = NoData
            /\ Commit("irrigate_zone", <<zone, minutes>>, r,
                      SubSeq(<<data1, data2>>, 1, Len(r.sent)), 0)
            /\ hist' = AfterForced(r, data2)

StopIrrigation ==
    /\ last = Idle
    /\ \E data1 \in Responses("StopIrrigation"),
          data2 \in Responses("CurrentStationsActive") :
        \E r \in { stop_irrigation(Self, data1, data2) } :
            /\ Len(r.sent) = 2 \/ data2 = NoData
            /\ Commit("stop_irrigation", <<>>, r,
                      SubSeq(<<data1, data2>>, 1, Len(r.sent)), 0)
            /\ hist' = AfterForced(r, data2)

SimpleCall ==
    /\ last = Idle
    /\ \E op \in SimpleOps :
        \E data \in Responses(CommandOf(op)) :
            /\ Commit(op, ArgsOf(op), simple_call(Self, op, ArgsOf(op), data),
                      <<data>>, 0)
            /\ hist' = [hist EXCEPT !.forced = FALSE]

Next ==
    \/ Tick
    \/ Resume
    \/ GetZoneState
    \/ GetRainSensorState
    \/ IrrigateZone
    \/ StopIrrigation
    \/ SimpleCall

Spec == Init /\ [][Next]_vars

\* The shape of the state.
TypeOK ==
    /\ isinstance(zones, "States") /\ Len(zones.states) = 8
    /\ rain_sensor \in {None, PyBool(TRUE), PyBool(FALSE)}
    /\ zone_update_time \in {NoTime} \cup { At(t) : t \in 0..MaxTime }
    /\ sensor_update_time \in {NoTime} \cup { At(t) : t \in 0..MaxTime }
    /\ now \in 0..MaxTime

(***************************************************************************)
(* Two threads calling get_zone_state on one instance.  A thread runs the  *)
(* method a line at a time, every line reading and writing the shared      *)
(* fields as the code does, and the other thread and the clock may move    *)
(* between any two lines.  With threads.guarded the callers wrap each call *)
(* in one mutex: a call starts only when no call is under way.             *)
(*                                                                         *)
(* Kept beside the fields, for the properties: since[t], the Bitmask       *)
(* States that refreshes delivered from thread t's own successful refresh  *)
(* on, while t is on its way to line 118; and paired, the same from the    *)
(* refresh whose thread set the current zone_update_time on.               *)
(***************************************************************************)
Threads == {1, 2}

\* The lock of the callers' mutex: the thread holding it, or Unlocked.
Unlocked == 0

\* A faulty variant of get_zone_state_branch: the timestamp is set whatever
\* the refresh returned.
get_zone_state_branch_stamps(response) == "stamp"

\* Line 114 of get_zone_state: where the call goes after its refresh
\* returned response.
get_zone_state_branch(response) ==
    IF ~isinstance(response, "States") THEN "reset" ELSE "stamp"

InitThreads ==
    /\ zones = States(<<0, 0>>)
    /\ rain_sensor = None
    /\ zone_update_time = NoTime
    /\ sensor_update_time = NoTime
    /\ now = 0
    /\ last = Idle
    /\ hist = [zone_call |-> NoTime, zone_ok |-> NoTime, real |-> FALSE,
               forced |-> FALSE]
    /\ \E guarded \in BOOLEAN :
         threads = [guarded |-> guarded,
                    lock |-> Unlocked,
                    pc |-> [t \in Threads |-> "idle"],
                    zone |-> [t \in Threads |-> 0],
                    ret |-> [t \in Threads |-> Return(None)],
                    since |-> [t \in Threads |-> {}],
                    paired |-> {}]

\* threads once thread t has returned or raised outcome.
Ended(t, outcome) ==
    [threads EXCEPT !.pc[t] = "idle", !.ret[t] = outcome,
                    !.since[t] = {}, !.lock = Unlocked]

\* Thread t calls get_zone_state(zone); under the mutex it first takes the
\* lock.
Call(t) ==
    /\ threads.pc[t] = "idle"
    /\ threads.guarded => threads.lock = Unlocked
    /\ \E zone \in ZoneInputs :
         threads' = [threads EXCEPT !.pc[t] = "check", !.zone[t] = zone,
                                    !.ret[t] = Return(None),
                                    !.lock = IF threads.guarded
                                             THEN t ELSE Unlocked]
    /\ UNCHANGED << zones, rain_sensor, zone_update_time, sensor_update_time,
                    now, last, hist >>

\* Line 112: the staleness check.
Check(t) ==
    /\ threads.pc[t] = "check"
    /\ threads' = [threads EXCEPT !.pc[t] =
                      IF _check_delay(zone_update_time, UpdateDelay, now)
                      THEN "refresh" ELSE "read"]
    /\ UNCHANGED << zones, rain_sensor, zone_update_time, sensor_update_time,
                    now, last, hist >>

\* Lines 113 and 114: _update_irrigation_state, which assigns self.zones when
\* the device answers with a Bitmask State, and the test of what it
\* returned.  An exception of the dispatcher ends the call.
Refresh(t) ==
    /\ threads.pc[t] = "refresh"
    /\ \E data \in Responses("CurrentStationsActive") :
         \E u \in { _update_irrigation_state(Self, DefaultPage, data) } :
            LET delivered ==
                    IF Typed("CurrentStationsActive", data)
                    THEN { States(SubSeq(Hex08X(data.fields.activeStations),
                                         1, 2)) }
                    ELSE {}
                later == [threads EXCEPT
                            !.since = [o \in Threads |->
                                          IF o = t THEN delivered
                                          ELSE IF threads.pc[o] = "stamp"
                                          THEN threads.since[o] \cup delivered
                                          ELSE threads.since[o]],
                            !.paired = IF threads.paired = {} THEN {}
                                       ELSE threads.paired \cup delivered]
            IN  /\ zones' = u.self.zones
                /\ threads' =
                     IF u.outcome.kind = "raise"
                     THEN [later EXCEPT !.pc[t] = "idle",
                                        !.ret[t] = u.outcome,
                                        !.lock = Unlocked]
                     ELSE [later EXCEPT !.pc[t] =
                              get_zone_state_branch(u.outcome.value)]
    /\ UNCHANGED << rain_sensor, zone_update_time, sensor_update_time,
                    now, last, hist >>

\* Lines 115 and 116: the reset and the return of unknown.
Reset(t) ==
    /\ threads.pc[t] = "reset"
    /\ zones' = States(<<0, 0>>)
    /\ threads' = Ended(t, Return(None))
    /\ UNCHANGED << rain_sensor, zone_update_time, sensor_update_time,
                    now, last, hist >>

\* Line 118: the timestamp.
Stamp(t) ==
    /\ threads.pc[t] = "stamp"
    /\ zone_update_time' = At(now)
    /\ threads' = [threads EXCEPT !.pc[t] = "read",
                                  !.paired = threads.since[t],
                                  !.since[t] = {}]
    /\ UNCHANGED << zones, rain_sensor, sensor_update_time, now, last, hist >>

\* Line 119: the answer read from the cached state.
Read(t) ==
    /\ threads.pc[t] = "read"
    /\ threads' = Ended(t, Return(PyBool(active(zones, threads.zone[t]))))
    /\ UNCHANGED << zones, rain_sensor, zone_update_time, sensor_update_time,
                    now, last, hist >>

NextThreads ==
    \/ Tick
    \/ \E t \in Threads :
         \/ Call(t)
         \/ Check(t)
         \/ Refresh(t)
         \/ Reset(t)
         \/ Stamp(t)
         \/ Read(t)

SpecThreads == InitThreads /\ [][NextThreads]_vars

(***************************************************************************)
(* Properties.  They are stated of the call that has just ended (last):    *)
(* last.pre holds the fields before it, the variables the fields after it. *)
(***************************************************************************)
ZoneCall == last.op = "get_zone_state"

SensorCall == last.op = "get_rain_sensor_state"

\* The fields are as they were before the call.
FieldsUnchanged == Self = last.pre

\* The first answer the call received is empty, or has the expected status
\* code with another type tag: the dispatch returns something untyped.
Untyped(cmd) ==
    /\ last.recv # <<>>
    /\ \/ last.recv[1] = NoData
       \/ /\ last.recv[1].code = ExpectedCode(cmd)
          /\ last.recv[1].type # ResponseType(ExpectedCode(cmd))

\* The answer i of the call has another status code than its request
\* expects.
WrongCode(i) ==
    /\ i \in 1..Len(last.recv)
    /\ last.recv[i] # NoData
    /\ last.recv[i].code # ExpectedCode(last.sent[i].cmd)

(***************************************************************************)
(* C1, as claimed: of two get_zone_state calls begun within update_delay   *)
(* of each other, the later one sends no request.  It fails: the earlier   *)
(* call may have failed to refresh, or may itself have been answered from  *)
(* a cache that has gone stale by the time of the later call.              *)
(***************************************************************************)
C1_AnyTwoCalls ==
    ( /\ ZoneCall
      /\ last.prev.zone_call # NoTime
      /\ last.start - last.prev.zone_call[1] <= UpdateDelay )
    => last.sent = <<>>

\* C1, amended: a get_zone_state call begun within update_delay of the
\* start of an earlier get_zone_state call that refreshed successfully
\* sends no request, whatever was called in between.
C1_NoSecondDispatch ==
    ( /\ ZoneCall
      /\ last.prev.zone_ok # NoTime
      /\ last.start - last.prev.zone_ok[1] <= UpdateDelay )
    => last.sent = <<>>

\* C1's case: a call exactly update_delay after a refreshing call, served
\* from the cache.
C1_Witness ==
    /\ ZoneCall
    /\ last.prev.zone_ok # NoTime
    /\ last.start = last.prev.zone_ok[1] + UpdateDelay
    /\ last.sent = <<>>

(***************************************************************************)
(* C2: a get_zone_state call made after update_delay has elapsed since the *)
(* stored zone timestamp sends exactly one CurrentStationsActive request;  *)
(* the timestamp changes in it only if the answer gave a Bitmask State,    *)
(* and keeps its value otherwise.                                          *)
(***************************************************************************)
C2_StaleRefresh ==
    ( /\ ZoneCall
      /\ last.pre.zone_update_time # NoTime
      /\ last.start > last.pre.zone_update_time[1] + UpdateDelay )
    => /\ Len(last.sent) = 1
       /\ last.sent[1].cmd = "CurrentStationsActive"
       /\ Len(last.recv) = 1
       /\ zone_update_time # last.pre.zone_update_time
            => Typed("CurrentStationsActive", last.recv[1])
       /\ ~Typed("CurrentStationsActive", last.recv[1])
            => zone_update_time = last.pre.zone_update_time

\* C2's case: a stale timestamp replaced by a successful refresh.
C2_Witness ==
    /\ ZoneCall
    /\ last.pre.zone_update_time # NoTime
    /\ last.start > last.pre.zone_update_time[1] + UpdateDelay
    /\ Typed("CurrentStationsActive", last.recv[1])
    /\ zone_update_time # last.pre.zone_update_time

C4_NeverRaises ==
    /\ ( ZoneCall /\ last.recv # <<>>
         /\ ~Typed("CurrentStationsActive", last.recv[1]) )
       => last.outcome = Return(None) /\ zones = States(<<0, 0>>)
    /\ ( SensorCall /\ last.recv # <<>>
         /\ ~Typed("CurrentRainSensorState", last.recv[1]) )
       => last.outcome = Return(None) /\ rain_sensor = None

\* C4, amended: a refresh that fails because the transport returned nothing
\* or the type tag differs is not raised: the read returns unknown with the
\* cached state reset.  A response with another status code is raised to
\* the caller, and the cached state is left as it was.
C4_FailureNotRaised ==
    /\ ( ZoneCall /\ Untyped("CurrentStationsActive") )
       => last.outcome = Return(None) /\ zones = States(<<0, 0>>)
    /\ ( SensorCall /\ Untyped("CurrentRainSensorState") )
       => last.outcome = Return(None) /\ rain_sensor = None
    /\ ( (ZoneCall \/ SensorCall) /\ WrongCode(1) )
       => last.outcome.kind = "raise" /\ FieldsUnchanged

\* C4's case: a sensor read raising on another status code, the known
\* flag kept.
C4_Witness ==
    /\ SensorCall
    /\ WrongCode(1)
    /\ last.outcome.kind = "raise"
    /\ rain_sensor # None

C6_WrongCodeRaises ==
    ( last # Idle /\ \E i \in 1..Len(last.recv) : WrongCode(i) )
    => LET n == Len(last.recv) IN
       /\ WrongCode(n)
       /\ last.outcome =
            Raise(WrongResponse(ExpectedCode(last.sent[n].cmd),
                                last.recv[n].code,
                                PyDict(last.recv[n].type, last.recv[n].fields)))
       /\ FieldsUnchanged

\* C6's case: the refresh of irrigate_zone answered with another status
\* code, after the action was acknowledged.
C6_Witness ==
    /\ last.op = "irrigate_zone"
    /\ Len(last.recv) = 2
    /\ Typed("ManuallyRunStation", last.recv[1])
    /\ WrongCode(2)
    /\ last.outcome.kind = "raise"
    /\ last.outcome.exc.expected = "BF"
    /\ last.outcome.exc.actual = "00"

(***************************************************************************)
(* C7: for a one-request operation and a non-empty response with the       *)
(* expected status code, the operation returns its mapping function        *)
(* applied to the decoded mapping if the mapping's type tag is the one     *)
(* expected, and the decoded mapping itself, unmapped, otherwise.          *)
(***************************************************************************)
C7_TypedOrRaw ==
    ( /\ last.op \in SimpleOps
      /\ last.recv[1] # NoData
      /\ last.recv[1].code = ExpectedCode(CommandOf(last.op)) )
    => LET data == last.recv[1]
           mapping == PyDict(data.type, data.fields)
       IN  IF data.type = ResponseType(ExpectedCode(CommandOf(last.op)))
           THEN /\ last.outcome = Return(funct(last.op, mapping))
                /\ last.op = "get_serial_number"
                     => last.outcome.value = PyInt(data.fields.serialNumber)
                /\ last.op = "set_rain_delay"
                     => last.outcome.value = PyBool(TRUE)
                /\ last.op = "schedule" => last.outcome.value = mapping
           ELSE last.outcome = Return(mapping)

\* C7's case: get_serial_number answered with the expected status code
\* under another type tag returns the mapping, not a number.
C7_Witness ==
    /\ last.op = "get_serial_number"
    /\ last.recv[1] # NoData
    /\ last.recv[1].code = "85"
    /\ last.recv[1].type # "SerialNumberResponse"
    /\ last.outcome = Return(PyDict(last.recv[1].type, last.recv[1].fields))

(***************************************************************************)
(* C8, as claimed: irrigate_zone answers true only if the action was       *)
(* acknowledged and the refresh after it delivered a state in which the    *)
(* zone is active; it never answers true from a state cached before the    *)
(* action.  The code fails it: a refresh that delivers nothing leaves the  *)
(* cached state in place, and the answer is read from it.                  *)
(***************************************************************************)
C8_TrueOnlyFromRefresh ==
    ( last.op = "irrigate_zone" /\ last.outcome = Return(PyBool(TRUE)) )
    => /\ Typed("ManuallyRunStation", last.recv[1])
       /\ Len(last.recv) = 2
       /\ Typed("CurrentStationsActive", last.recv[2])
       /\ active(funct("_update_irrigation_state",
                       PyDict(last.recv[2].type, last.recv[2].fields)),
                 last.args[1])

(***************************************************************************)
(* C9, as claimed: stop_irrigation answers true only if the stop was       *)
(* acknowledged and the refresh after it delivered a state with no active  *)
(* zone, never on a state the refresh did not deliver.  The code fails     *)
(* it: with the refresh unanswered it answers from the all-zero            *)
(* placeholder or from the state cached before.                            *)
(***************************************************************************)
C9_TrueOnlyFromRefresh ==
    ( last.op = "stop_irrigation" /\ last.outcome = Return(PyBool(TRUE)) )
    => /\ Typed("StopIrrigation", last.recv[1])
       /\ Len(last.recv) = 2
       /\ Typed("CurrentStationsActive", last.recv[2])
       /\ ~AnyActive(funct("_update_irrigation_state",
                           PyDict(last.recv[2].type, last.recv[2].fields)))

(***************************************************************************)
(* C10: a cache read finds its value fresh exactly when the timestamp is   *)
(* set and the time of the call is at most timestamp + update_delay.  A    *)
(* fresh read returns the cached value, sends nothing and changes nothing; *)
(* a stale read sends one request.                                         *)
(***************************************************************************)
C10_FreshExactly ==
    /\ ZoneCall =>
         LET ts == last.pre.zone_update_time
             fresh == ts # NoTime /\ last.start <= ts[1] + UpdateDelay
         IN  IF fresh
             THEN /\ last.sent = <<>>
                  /\ last.outcome =
                       Return(PyBool(active(last.pre.zones, last.args[1])))
                  /\ FieldsUnchanged
             ELSE /\ Len(last.sent) = 1
                  /\ last.sent[1].cmd = "CurrentStationsActive"
    /\ SensorCall =>
         LET ts == last.pre.sensor_update_time
             fresh == ts # NoTime /\ last.start <= ts[1] + UpdateDelay
         IN  IF fresh
             THEN /\ last.sent = <<>>
                  /\ last.outcome = Return(last.pre.rain_sensor)
                  /\ FieldsUnchanged
             ELSE /\ Len(last.sent) = 1
                  /\ last.sent[1].cmd = "CurrentRainSensorState"

\* C10's case: a sensor read at exactly timestamp + update_delay, served
\* from the cache.
C10_Witness ==
    /\ SensorCall
    /\ last.pre.sensor_update_time # NoTime
    /\ last.start = last.pre.sensor_update_time[1] + UpdateDelay
    /\ last.sent = <<>>
    /\ last.outcome = Return(last.pre.rain_sensor)

(***************************************************************************)
(* C11, as claimed: only get_zone_state and get_rain_sensor_state change   *)
(* the four fields of the controller; every other facade operation leaves  *)
(* them as they were, whatever its dispatches gave.  It fails:             *)
(* irrigate_zone and stop_irrigation replace the cached zone state when    *)
(* their refresh succeeds.                                                 *)
(***************************************************************************)
C11_OnlyCacheReadsMutate ==
    ( last # Idle /\ ~ZoneCall /\ ~SensorCall ) => FieldsUnchanged

\* irrigate_zone or stop_irrigation has just ended.
ForcedCall == last.op \in {"irrigate_zone", "stop_irrigation"}

\* C11, amended: the fields are changed only by get_zone_state, by
\* get_rain_sensor_state and by the refresh of irrigate_zone and
\* stop_irrigation, which changes the cached zone state alone and only if
\* it obtained a Bitmask State; every one-request facade operation leaves
\* all four fields as they were, whatever the outcome of its dispatch.
C11_MutatedOnlyByRefresh ==
    /\ last.op \in SimpleOps => FieldsUnchanged
    /\ ForcedCall =>
         /\ rain_sensor = last.pre.rain_sensor
         /\ zone_update_time = last.pre.zone_update_time
         /\ sensor_update_time = last.pre.sensor_update_time
         /\ zones # last.pre.zones =>
              /\ Len(last.recv) = 2
              /\ Typed("CurrentStationsActive", last.recv[2])

\* C11's case: stop_irrigation, its stop not acknowledged, changes the
\* cached zone state under a timestamp that stays as set.
C11_Witness ==
    /\ last.op = "stop_irrigation"
    /\ ~Typed("StopIrrigation", last.recv[1])
    /\ zones # last.pre.zones
    /\ zone_update_time # NoTime
    /\ zone_update_time = last.pre.zone_update_time

(***************************************************************************)
(* C13: after a refresh that succeeds on activeStations = a, a below 2^32, *)
(* the cached Bitmask State has eight flags and the flag of zone z, z in   *)
(* 0..7, is bit 31 - z of a, which is bit 15 - z of the high half of a.    *)
(* "00" gives no active zone and "80" zone 0 alone.                        *)
(***************************************************************************)
\* The answer to the CurrentStationsActive request of the call, if one was
\* sent and answered: the last answer received.
RefreshAnswer == last.recv[Len(last.recv)]

\* The call sent a CurrentStationsActive request and got a typed answer.
RefreshSucceeded ==
    /\ last # Idle
    /\ last.sent # <<>>
    /\ Len(last.recv) = Len(last.sent)
    /\ last.sent[Len(last.sent)].cmd = "CurrentStationsActive"
    /\ Typed("CurrentStationsActive", RefreshAnswer)

\* Bit k of n, for n >= 0.
Bit(n, k) == (n \div (2 ^ k)) % 2 = 1

C13_BigEndianBits ==
    /\ RefreshSucceeded =>
         /\ Len(zones.states) = 8
         /\ \A z \in 0..7 :
              active(zones, z) = Bit(RefreshAnswer.fields.activeStations[1],
                                     15 - z)
    /\ \A z \in 0..7 : ~active(States(<<0, 0>>), z)
    /\ \A z \in 0..7 : active(States(<<8, 0>>), z) = (z = 0)

\* C13's case: 0x01000000 refreshed, zone 7 alone active.
C13_Witness ==
    /\ RefreshSucceeded
    /\ RefreshAnswer.fields.activeStations = Word16(256, 0)
    /\ \A z \in 0..7 : active(zones, z) = (z = 7)

(***************************************************************************)
(* C15: irrigate_zone and stop_irrigation send their action request and    *)
(* then the CurrentStationsActive request, whether the zone cache is fresh *)
(* or not and also when the action got no response or another type tag;    *)
(* only another status code on the action, which raises, leaves the        *)
(* refresh unsent.  Every one-request facade operation sends exactly its   *)
(* one request.                                                            *)
(***************************************************************************)
C15_ActionThenRefresh ==
    /\ ForcedCall =>
         /\ last.sent[1].cmd = IF last.op = "irrigate_zone"
                               THEN "ManuallyRunStation" ELSE "StopIrrigation"
         /\ IF WrongCode(1)
            THEN Len(last.sent) = 1 /\ last.outcome.kind = "raise"
            ELSE /\ Len(last.sent) = 2
                 /\ last.sent[2] = Request("CurrentStationsActive",
                                           <<DefaultPage>>)
    /\ last.op \in SimpleOps =>
         last.sent = << Request(CommandOf(last.op), last.args) >>

\* C15's case: irrigate_zone, under a fresh zone timestamp and with its
\* action unanswered, sends the refresh all the same.
C15_Witness ==
    /\ last.op = "irrigate_zone"
    /\ last.recv[1] = NoData
    /\ last.pre.zone_update_time # NoTime
    /\ last.start <= last.pre.zone_update_time[1] + UpdateDelay
    /\ Len(last.sent) = 2
    /\ last.sent[2].cmd = "CurrentStationsActive"

(***************************************************************************)
(* C17: whenever the sensor timestamp is set and the clock is at most      *)
(* timestamp + update_delay, the cached rain sensor flag is a boolean; and *)
(* get_rain_sensor_state returns unknown only from a call that sent a      *)
(* refresh which gave no typed result.                                     *)
(***************************************************************************)
C17_FreshSensorIsKnown ==
    /\ ( /\ sensor_update_time # NoTime
         /\ now <= sensor_update_time[1] + UpdateDelay )
       => rain_sensor \in {PyBool(TRUE), PyBool(FALSE)}
    /\ ( SensorCall /\ last.outcome = Return(None) )
       => Untyped("CurrentRainSensorState")

\* C17's case: a fresh sensor read answered with a boolean from the cache.
C17_Witness ==
    /\ SensorCall
    /\ last.sent = <<>>
    /\ now <= sensor_update_time[1] + UpdateDelay
    /\ last.outcome = Return(PyBool(TRUE))

C16_ForcedRefreshFrame ==
    /\ ForcedCall =>
         /\ rain_sensor = last.pre.rain_sensor
         /\ zone_update_time = last.pre.zone_update_time
         /\ sensor_update_time = last.pre.sensor_update_time
         /\ IF RefreshSucceeded
            THEN zones = States(SubSeq(
                            Hex08X(RefreshAnswer.fields.activeStations), 1, 2))
            ELSE zones = last.pre.zones
    /\ ( last # Idle /\ zone_update_time # last.pre.zone_update_time )
       => ZoneCall
    /\ ( /\ last # Idle
         /\ \/ sensor_update_time # last.pre.sensor_update_time
            \/ rain_sensor # last.pre.rain_sensor )
       => SensorCall
    /\ ( /\ ZoneCall
         /\ last.prev.forced
         /\ \/ last.pre.zone_update_time = NoTime
            \/ last.start > last.pre.zone_update_time[1] + UpdateDelay )
       => last.sent = << Request("CurrentStationsActive", <<DefaultPage>>) >>

\* C16's case: get_zone_state right after an irrigate_zone or
\* stop_irrigation that succeeded, under a timestamp set and stale: it
\* sends its request.
C16_Witness ==
    /\ ZoneCall
    /\ last.prev.forced
    /\ last.pre.zone_update_time # NoTime
    /\ last.sent # <<>>

(***************************************************************************)
(* C12: when the callers serialise their get_zone_state calls with one     *)
(* mutex, a fresh zone timestamp is always paired with the Bitmask State   *)
(* of the successful refresh that stamped it or of a later successful      *)
(* refresh, and no refresh is dispatched while the timestamp is fresh.     *)
(* Without the mutex both can fail (C12_Witness).                          *)
(***************************************************************************)
FreshZones ==
    /\ zone_update_time # NoTime
    /\ now <= zone_update_time[1] + UpdateDelay

\* The fresh timestamp covers the state that its refresh, or a later one,
\* delivered.
PairedState == FreshZones => zones \in threads.paired

\* No thread is about to dispatch a refresh under a fresh timestamp.
OneDispatchPerWindow ==
    FreshZones => \A t \in Threads : threads.pc[t] # "refresh"

C12_MutexPairsStampAndState ==
    ( threads # NoThreads /\ threads.guarded )
    => ( PairedState /\ OneDispatchPerWindow )

\* C12's case: no mutex, and a fresh timestamp over a state that neither
\* its refresh nor a later one delivered.
C12_Witness ==
    /\ threads # NoThreads
    /\ ~threads.guarded
    /\ FreshZones
    /\ zones \notin threads.paired

\* No mutex, and a thread about to dispatch inside the window of a
\* timestamp another thread has set.
C12_SecondDispatchReached ==
    /\ threads # NoThreads
    /\ ~threads.guarded
    /\ ~OneDispatchPerWindow

\* Under the mutex, a thread answering from a fresh cache.
C12_GuardedFreshReached ==
    /\ threads # NoThreads
    /\ threads.guarded
    /\ FreshZones
    /\ \E t \in Threads : threads.pc[t] = "read"
    /\ zones # States(<<0, 0>>)

====
